---------------------------- MODULE Spec2Model ----------------------------
(***************************************************************************)
(* json-objects-to-csv: Json2Csv::convert_from_reader and                  *)
(* Json2Csv::convert_from_array (src/src/lib.rs).                          *)
(*                                                                         *)
(* A Rust String is a sequence of characters, each character a one-token   *)
(* TLA+ string; Ord gives the code point that String's Ord compares.       *)
(* A serde_json::Value is a record with the same six fields for every      *)
(* variant.  A JSON text document (what the reader's byte stream holds)    *)
(* has the same shape, except that an object's members are the sequence of *)
(* "key": value pairs as written, where a key may occur several times.     *)
(* A serde_json::Map / BTreeMap<String, Value> is a function from keys to  *)
(* values, iterated in ascending key order.                                *)
(*                                                                         *)
(* One behaviour is one run of tests::execute: the same input text is      *)
(* given to convert_from_reader and, parsed, to convert_from_array.        *)
(* Input keys hold none of the three reserved characters, and numbers are  *)
(* non-negative integers.  Sink and spill-file I/O never fail under Spec;  *)
(* SpecIO is convert_from_reader alone, from its first statement, with     *)
(* I/O that may fail.                                                      *)
(***************************************************************************)
EXTENDS Integers, Sequences, FiniteSets, TLC

\* Number of top-level documents in one input.
MaxObjects == 2

---------------------------------------------------------------------------
(* Strings *)

\* Code points of the characters that occur in keys.
Ord ==
  [c \in {".", "0", "1", "[", "]", "a", "b", "c", "GS", "RS", "US"} |->
     CASE c = "."  -> 46
       [] c = "0"  -> 48
       [] c = "1"  -> 49
       [] c = "["  -> 91
       [] c = "]"  -> 93
       [] c = "a"  -> 97
       [] c = "b"  -> 98
       [] c = "c"  -> 99
       [] c = "GS" -> 9245
       [] c = "RS" -> 9246
       [] c = "US" -> 9247]

\* impl Ord for String: lexicographic on code points; s < t.
RECURSIVE LexLess(_, _)
LexLess(s, t) ==
  IF t = <<>> THEN FALSE
  ELSE IF s = <<>> THEN TRUE
  ELSE IF s[1] = t[1] THEN LexLess(Tail(s), Tail(t))
  ELSE Ord[s[1]] < Ord[t[1]]

\* Iteration order of a BTreeSet<String> (and of a BTreeMap's keys).
RECURSIVE SortedSeq(_)
SortedSeq(S) ==
  IF S = {} THEN <<>>
  ELSE LET min == CHOOSE x \in S : \A y \in S \ {x} : LexLess(x, y)
       IN  <<min>> \o SortedSeq(S \ {min})

\* str::replace(from, to), for a non-empty pattern.
RECURSIVE Replace(_, _, _)
Replace(s, from, to) ==
  IF Len(s) < Len(from) THEN s
  ELSE IF SubSeq(s, 1, Len(from)) = from
       THEN to \o Replace(SubSeq(s, Len(from) + 1, Len(s)), from, to)
       ELSE <<s[1]>> \o Replace(Tail(s), from, to)

Digits == <<"0", "1", "2", "3", "4", "5", "6", "7", "8", "9">>

\* Decimal text of a non-negative integer (usize / Number to_string).
RECURSIVE DecimalText(_)
DecimalText(n) ==
  IF n < 10 THEN <<Digits[n + 1]>>
  ELSE DecimalText(n \div 10) \o <<Digits[(n % 10) + 1]>>

\* bool to_string.
BoolText(b) == IF b THEN <<"t", "r", "u", "e">> ELSE <<"f", "a", "l", "s", "e">>

---------------------------------------------------------------------------
(* serde_json::Value, and JSON text *)

Scalar(kind, num, str, bool) ==
  [kind |-> kind, num |-> num, str |-> str, bool |-> bool,
   items |-> <<>>, members |-> <<>>]

Null        == Scalar("Null", 0, <<>>, FALSE)
Bool(b)     == Scalar("Bool", 0, <<>>, b)
Number(n)   == Scalar("Number", n, <<>>, FALSE)
String(s)   == Scalar("String", 0, s, FALSE)
Array(xs)   == [Scalar("Array", 0, <<>>, FALSE) EXCEPT !.items = xs]
Object(ms)  == [Scalar("Object", 0, <<>>, FALSE) EXCEPT !.members = ms]
\* A document the JSON decoder rejects.
Malformed   == Scalar("Malformed", 0, <<>>, FALSE)

\* Map::new()
EmptyMap == <<>>

\* Map::insert: an existing key keeps one entry, with the new value.
Insert(map, key, value) ==
  [k \in (DOMAIN map) \cup {key} |-> IF k = key THEN value ELSE map[k]]

\* The Value a JSON text denotes.  Object members are inserted in the order
\* written, so the last occurrence of a repeated key is the one kept.
RECURSIVE ParseValue(_)
RECURSIVE ParseMembers(_, _)
RECURSIVE ParseMembersFirstWins(_, _)

\* ParseMembers as it would be if a repeated key kept its first occurrence.
ParseMembersFirstWins(map, members) ==
  IF members = <<>> THEN map
  ELSE ParseMembersFirstWins(
         IF members[1][1] \in DOMAIN map THEN map
         ELSE Insert(map, members[1][1], ParseValue(members[1][2])),
         Tail(members))

ParseMembers(map, members) ==
  IF members = <<>> THEN map
  ELSE ParseMembers(Insert(map, members[1][1], ParseValue(members[1][2])),
                    Tail(members))

ParseValue(text) ==
  CASE text.kind = "Array" ->
         Array([i \in 1..Len(text.items) |-> ParseValue(text.items[i])])
    [] text.kind = "Object" ->
         Object(ParseMembers(EmptyMap, text.members))
    [] OTHER -> text

\* serde_json::to_writer of a flat map: its members in key order.  The values
\* of a flat map are scalars or empty containers, written as they are.
Serialize(map) ==
  LET keys == SortedSeq(DOMAIN map)
  IN  Object([i \in 1..Len(keys) |-> <<keys[i], map[keys[i]]>>])

---------------------------------------------------------------------------
(* flatten_json_object::Flattener *)

Plain == [variant |-> "Plain", start |-> <<>>, end |-> <<>>]
Surrounded(start, end) == [variant |-> "Surrounded", start |-> start, end |-> end]

\* The key of element i of an array under parent_key.
ArrayKey(f, parent_key, i) ==
  IF f.array_formatting.variant = "Plain"
  THEN parent_key \o f.key_separator \o DecimalText(i)
  ELSE parent_key \o f.array_formatting.start \o DecimalText(i)
         \o f.array_formatting.end

\* The key of member k of an object under parent_key.
ObjectKey(f, parent_key, depth, k) ==
  IF depth > 0 THEN parent_key \o f.key_separator \o k ELSE k

\* The (key, value) pairs that flattening `current` under parent_key yields:
\* a scalar is kept under its key, an empty array or object is kept only when
\* the flattener preserves it (and never at the top level), and a non-empty
\* container contributes the pairs of its elements.
RECURSIVE FlattenPairs(_, _, _, _)
FlattenPairs(f, current, parent_key, depth) ==
  CASE current.kind = "Object" ->
         IF DOMAIN current.members = {}
         THEN IF depth > 0 /\ f.preserve_empty_objects
              THEN {<<parent_key, current>>} ELSE {}
         ELSE UNION {FlattenPairs(f, current.members[k],
                                  ObjectKey(f, parent_key, depth, k), depth + 1)
                     : k \in DOMAIN current.members}
    [] current.kind = "Array" ->
         IF current.items = <<>>
         THEN IF f.preserve_empty_arrays
              THEN {<<parent_key, current>>} ELSE {}
         ELSE UNION {FlattenPairs(f, current.items[i],
                                  ArrayKey(f, parent_key, i - 1), depth + 1)
                     : i \in 1..Len(current.items)}
    [] OTHER -> {<<parent_key, current>>}

\* The map holding the given pairs.
MapOf(pairs) ==
  [k \in {p[1] : p \in pairs} |-> (CHOOSE p \in pairs : p[1] = k)[2]]

\* Flattener::flatten: Err unless the value is an object.
Flatten(f, value) ==
  IF value.kind = "Object"
  THEN [ok |-> TRUE,  map |-> MapOf(FlattenPairs(f, value, <<>>, 0))]
  ELSE [ok |-> FALSE, map |-> EmptyMap]

---------------------------------------------------------------------------
(* Json2Csv *)

key_sep     == <<"GS">>
array_start == <<"RS">>
array_end   == <<"US">>

\* Json2Csv::new
New(flattener) ==
  [flattener |->
     IF flattener.array_formatting.variant = "Plain"
     THEN [flattener EXCEPT !.key_separator = key_sep]
     ELSE [flattener EXCEPT !.key_separator = key_sep,
                            !.array_formatting = Surrounded(array_start, array_end)],
   original_flattener |-> flattener]

\* transform_key with the array markers left as they are.
transform_key_separator_only(self, key) ==
  Replace(key, self.flattener.key_separator, self.original_flattener.key_separator)

\* Json2Csv::transform_key
transform_key(self, key) ==
  LET k == Replace(key, self.flattener.key_separator,
                   self.original_flattener.key_separator)
  IN  IF self.original_flattener.array_formatting.variant = "Plain" THEN k
      ELSE Replace(Replace(k, self.flattener.array_formatting.end,
                           self.original_flattener.array_formatting.end),
                   self.flattener.array_formatting.start,
                   self.original_flattener.array_formatting.start)

\* The map built by `for (orig_key, value) in orig_map { map.insert(
\* transform_key(orig_key), value) }`, orig_map iterated in key order.
RECURSIVE InsertTransformed(_, _, _, _)
InsertTransformed(self, map, orig_map, keys) ==
  IF keys = <<>> THEN map
  ELSE InsertTransformed(self,
         Insert(map, transform_key(self, keys[1]), orig_map[keys[1]]),
         orig_map, Tail(keys))

transformed_map(self, orig_map) ==
  InsertTransformed(self, EmptyMap, orig_map, SortedSeq(DOMAIN orig_map))

\* The cell of a value as the (commented-out) `_ => val.to_string()` arm
\* would give it.
cell_to_string(val) ==
  CASE val.kind = "String" -> val.str
    [] val.kind = "Number" -> DecimalText(val.num)
    [] val.kind = "Bool"   -> BoolText(val.bool)
    [] val.kind = "Null"   -> <<"n", "u", "l", "l">>
    [] val.kind = "Array"  -> <<"[", "]">>
    [] OTHER               -> <<"{", "}">>

\* The match of build_record on the value found under a header.
cell(val) ==
  CASE val.kind = "String" -> val.str
    [] val.kind = "Number" -> DecimalText(val.num)
    [] val.kind = "Bool"   -> BoolText(val.bool)
    [] OTHER               -> <<>>

\* build_record without the else branch: nothing pushed for an absent key.
build_record_present_only(headers, map) ==
  LET hs == SortedSeq(headers \cap DOMAIN map)
  IN  [j \in 1..Len(hs) |-> cell(map[hs[j]])]

\* build_record
build_record(headers, map) ==
  LET hs == SortedSeq(headers)
  IN  [j \in 1..Len(hs) |->
         IF hs[j] \in DOMAIN map THEN cell(map[hs[j]]) ELSE <<>>]

\* The headers, were the set replaced by each object's keys.
insert_all_replacing(headers, keys) == keys

\* headers.insert(key) for every key of one object.
insert_all(headers, keys) == headers \cup keys

\* flat_maps.push(map), were an object without keys skipped.
push_unless_empty(flat_maps, map) ==
  IF DOMAIN map = {} THEN flat_maps ELSE Append(flat_maps, map)

\* flat_maps.push(map)
push(flat_maps, map) == Append(flat_maps, map)

\* The first early return left out.
no_headers_never(headers) == FALSE

\* headers.is_empty()
no_headers(headers) == headers = {}

\* The collision check, were the two sets compared instead of their sizes.
has_collision_comparing_sets(headers, orig_headers) == headers # orig_headers

\* The collision check left out.
has_collision_never(headers, orig_headers) == FALSE

\* headers.len() != orig_headers.len()
has_collision(headers, orig_headers) ==
  Cardinality(headers) # Cardinality(orig_headers)

\* csv_writer.write_record(&headers): the set in its iteration order.
header_record(headers) == SortedSeq(headers)

---------------------------------------------------------------------------
(* Inputs *)

\* The caller's flatteners: the separator and array formatting of the tests,
\* with every choice of preserving empty arrays and objects.
Flatteners ==
  {[key_separator |-> fmt[1], array_formatting |-> fmt[2],
    preserve_empty_arrays |-> pa, preserve_empty_objects |-> po] :
     fmt \in {<< <<".">>, Plain >>,
              << <<".">>, Surrounded(<<"[">>, <<"]">>) >>,
              << <<"]">>, Surrounded(<<".">>, <<>>) >>},
     pa \in BOOLEAN, po \in BOOLEAN}

\* The documents an input is made of, as JSON text.
Docs ==
  { Object(<< >>),                                                 \* {}
    Object(<< << <<"a">>, Object(<< << <<"b">>, Number(1) >> >>) >> >>),
                                                                   \* {"a":{"b":1}}
    Object(<< << <<"a", ".", "b">>, Number(2) >> >>),              \* {"a.b":2}
    Object(<< << <<"a">>, Array(<< Number(3) >>) >> >>),           \* {"a":[3]}
    Object(<< << <<"a", "[", "0", "]">>, String(<<"x">>) >> >>),   \* {"a[0]":"x"}
    Object(<< << <<"c">>, Array(<< >>) >>, << <<"b">>, Object(<< >>) >> >>),
                                                                   \* {"c":[],"b":{}}
    Object(<< << <<"c">>, Null >>, << <<"b">>, Bool(TRUE) >> >>),
                                                                   \* {"c":null,"b":true}
    Object(<< << <<"a">>, Array(<< Number(3) >>) >>,
              << <<"a">>, Object(<< << <<"b">>, Number(2) >> >>) >> >>),
                                                                   \* {"a":[3],"a":{"b":2}}
    Object(<< << <<"a">>, Object(<< << <<"b">>, Number(1) >> >>) >>,
              << <<"a">>, Number(10) >>,
              << <<"a", ".", "b">>, Number(2) >> >>),
                                                                   \* {"a":{"b":1},"a":10,"a.b":2}
    Object(<< << <<"a">>, Object(<< << <<"b">>, Number(1) >> >>) >>,
              << <<"a", ".", "b">>, Number(2) >> >>),
                                                                   \* {"a":{"b":1},"a.b":2}
    Number(7),                                                     \* 7
    Malformed }

Inputs == UNION {[1..n -> Docs] : n \in 0..MaxObjects}

---------------------------------------------------------------------------
(* State *)

VARIABLES
  self,     \* the Json2Csv both calls are made on
  input,    \* the documents of the reader's byte stream, in order
  rd,       \* convert_from_reader: its position, locals, sink and result;
            \* tmp_held: the call holds the File that tempfile() returned
  ar        \* convert_from_array: its position, locals, sink and result

vars == <<self, input, rd, ar>>

\* Every document of the input is well-formed JSON.
WellFormed == \A i \in 1..Len(input) : input[i].kind # "Malformed"

\* The slice given to convert_from_array: the input's documents, parsed.
objects == [i \in 1..Len(input) |-> ParseValue(input[i])]

Init ==
  /\ \E flattener \in Flatteners : self = New(flattener)
  /\ input \in Inputs
  /\ rd = [pc |-> "pass1", pos |-> 0, orig_headers |-> {}, headers |-> {},
           tmp_file |-> <<>>, tmp_held |-> TRUE, sink |-> <<>>,
           result |-> "running"]
  /\ ar = [pc |-> "idle", pos |-> 0, orig_flat_maps |-> <<>>, flat_maps |-> <<>>,
           orig_headers |-> {}, headers |-> {}, sink |-> <<>>,
           result |-> "running"]

---------------------------------------------------------------------------
(* convert_from_reader *)

\* The map written to the spill file, were it the flattened object as it is.
spilled_map_safe_keys(json2csv, orig_map) == orig_map

\* The map written to the spill file for one flattened object.
spilled_map(json2csv, orig_map) == transformed_map(json2csv, orig_map)

\* A flattening that takes a value the flattener rejects for an empty object.
flatten_obj_lenient(json2csv, obj) ==
  IF Flatten(json2csv.flattener, obj).ok
  THEN Flatten(json2csv.flattener, obj)
  ELSE [ok |-> TRUE, map |-> EmptyMap]

\* self.flattener.flatten(obj)?, in both converters: the flat map of obj under
\* the reserved separators, or the flattener's error for `?` to return.
flatten_obj(json2csv, obj) == Flatten(json2csv.flattener, obj)

\* A return that leaves the file held when the result is an error.
reader_return_error_keeps_file(call, result) ==
  [call EXCEPT !.pc = "returned", !.result = result,
               !.tmp_held = (result # "Ok")]

\* A return of convert_from_reader: the result goes to the caller and the
\* locals go out of scope, tmp_file (the BufWriter or BufReader that owns the
\* File) among them.
reader_return(call, result) ==
  [call EXCEPT !.pc = "returned", !.result = result, !.tmp_held = FALSE]

\* One iteration of the first loop: decode the next document, flatten it,
\* collect its keys and write it to the spill file.
ReaderPass1 ==
  /\ rd.pc = "pass1"
  /\ rd.pos < Len(input)
  /\ LET doc == input[rd.pos + 1]
         obj == flatten_obj(self, ParseValue(doc))
     IN  IF doc.kind = "Malformed"
         THEN rd' = reader_return(rd, "ParsingJson")
         ELSE IF ~obj.ok
         THEN rd' = reader_return(rd, "Flattening")
         ELSE rd' = [rd EXCEPT
                !.pos = @ + 1,
                !.orig_headers = insert_all(@, DOMAIN obj.map),
                !.headers = insert_all(@, {transform_key(self, k) :
                                             k \in DOMAIN obj.map}),
                !.tmp_file = Append(@, Serialize(spilled_map(self, obj.map)))]
  /\ UNCHANGED <<self, input, ar>>

\* The end of the input: the two early returns, or the header row.
ReaderGate ==
  /\ rd.pc = "pass1"
  /\ rd.pos = Len(input)
  /\ IF no_headers(rd.headers)
     THEN rd' = reader_return(rd, "Ok")
     ELSE IF has_collision(rd.headers, rd.orig_headers)
     THEN rd' = reader_return(rd, "FlattenedKeysCollision")
     ELSE rd' = [rd EXCEPT !.pc = "pass2", !.pos = 0,
                           !.sink = Append(@, header_record(rd.headers))]
  /\ UNCHANGED <<self, input, ar>>

\* One iteration of the second loop: decode the next spilled document and
\* write its row; Ok(()) at the end of the spill file.
ReaderPass2 ==
  /\ rd.pc = "pass2"
  /\ IF rd.pos < Len(rd.tmp_file)
     THEN LET map == ParseValue(rd.tmp_file[rd.pos + 1]).members
          IN  rd' = [rd EXCEPT
                 !.pos = @ + 1,
                 !.sink = Append(@, build_record(rd.headers, map))]
     ELSE rd' = reader_return(rd, "Ok")
  /\ UNCHANGED <<self, input, ar>>

\* The first statement of the call: tempfile() gives a new, empty file, or
\* fails.
ReaderCall ==
  /\ rd.pc = "call"
  /\ \/ rd' = [rd EXCEPT !.pc = "pass1", !.tmp_file = <<>>, !.tmp_held = TRUE]
     \/ rd' = reader_return(rd, "InputOutput")
  /\ UNCHANGED <<self, input, ar>>

\* The errors that failing I/O can end the call with where it stands: in
\* either loop a read of the next document or a write of the spilled one
\* (serde_json::Error); after the early returns the seek, which flushes the
\* BufWriter (io::Error), and the header row (csv::Error); in the second loop
\* a row (csv::Error).  into_inner finds the buffer flushed and cannot fail.
io_errors(call) ==
  CASE call.pc = "pass1" ->
         {"ParsingJson"} \cup
         (IF /\ call.pos = Len(input)
             /\ ~no_headers(call.headers)
             /\ ~has_collision(call.headers, call.orig_headers)
          THEN {"InputOutput", "WrittingCSV"} ELSE {})
    [] call.pc = "pass2" ->
         {"ParsingJson"} \cup
         (IF call.pos < Len(call.tmp_file) THEN {"WrittingCSV"} ELSE {})
    [] OTHER -> {}

\* An I/O operation of the call fails and `?` returns its error.
ReaderIoError ==
  /\ \E err \in io_errors(rd) : rd' = reader_return(rd, err)
  /\ UNCHANGED <<self, input, ar>>

---------------------------------------------------------------------------
(* convert_from_array *)

\* The call is made once convert_from_reader has returned, on the parsed
\* input (none is made if the input does not parse).
ArrayCall ==
  /\ rd.pc = "returned"
  /\ ar.pc = "idle"
  /\ WellFormed
  /\ ar' = [ar EXCEPT !.pc = "flatten"]
  /\ UNCHANGED <<self, input, rd>>

\* One iteration of the first loop: flatten the next object.
ArrayFlatten ==
  /\ ar.pc = "flatten"
  /\ IF ar.pos < Len(objects)
     THEN LET obj == flatten_obj(self, objects[ar.pos + 1])
          IN  IF ~obj.ok
              THEN ar' = [ar EXCEPT !.pc = "returned", !.result = "Flattening"]
              ELSE ar' = [ar EXCEPT !.pos = @ + 1,
                                    !.orig_flat_maps = Append(@, obj.map)]
     ELSE ar' = [ar EXCEPT !.pc = "headers", !.pos = 0]
  /\ UNCHANGED <<self, input, rd>>

\* One iteration of the second loop: collect the keys of the next flattened
\* object and keep it under its transformed keys.
ArrayHeaders ==
  /\ ar.pc = "headers"
  /\ ar.pos < Len(ar.orig_flat_maps)
  /\ LET orig_map == ar.orig_flat_maps[ar.pos + 1]
     IN  ar' = [ar EXCEPT
            !.pos = @ + 1,
            !.orig_headers = insert_all(@, DOMAIN orig_map),
            !.headers = insert_all(@, {transform_key(self, k) :
                                         k \in DOMAIN orig_map}),
            !.flat_maps = push(@, transformed_map(self, orig_map))]
  /\ UNCHANGED <<self, input, rd>>

\* After the second loop: the two early returns, or the header row.
ArrayGate ==
  /\ ar.pc = "headers"
  /\ ar.pos = Len(ar.orig_flat_maps)
  /\ IF no_headers(ar.headers)
     THEN ar' = [ar EXCEPT !.pc = "returned", !.result = "Ok"]
     ELSE IF has_collision(ar.headers, ar.orig_headers)
     THEN ar' = [ar EXCEPT !.pc = "returned",
                           !.result = "FlattenedKeysCollision"]
     ELSE ar' = [ar EXCEPT !.pc = "emit", !.pos = 0,
                           !.sink = Append(@, header_record(ar.headers))]
  /\ UNCHANGED <<self, input, rd>>

\* One iteration of the last loop: write the row of the next object; Ok(())
\* after the last one.
ArrayEmit ==
  /\ ar.pc = "emit"
  /\ IF ar.pos < Len(ar.flat_maps)
     THEN ar' = [ar EXCEPT
            !.pos = @ + 1,
            !.sink = Append(@, build_record(ar.headers, ar.flat_maps[ar.pos + 1]))]
     ELSE ar' = [ar EXCEPT !.pc = "returned", !.result = "Ok"]
  /\ UNCHANGED <<self, input, rd>>

---------------------------------------------------------------------------

Next ==
  \/ ReaderPass1
  \/ ReaderGate
  \/ ReaderPass2
  \/ ArrayCall
  \/ ArrayFlatten
  \/ ArrayHeaders
  \/ ArrayGate
  \/ ArrayEmit

Spec == Init /\ [][Next]_vars

\* convert_from_reader alone, before its first statement, with failing I/O.
InitIO ==
  /\ \E flattener \in Flatteners : self = New(flattener)
  /\ input \in Inputs
  /\ rd = [pc |-> "call", pos |-> 0, orig_headers |-> {}, headers |-> {},
           tmp_file |-> <<>>, tmp_held |-> FALSE, sink |-> <<>>,
           result |-> "running"]
  /\ ar = [pc |-> "idle", pos |-> 0, orig_flat_maps |-> <<>>, flat_maps |-> <<>>,
           orig_headers |-> {}, headers |-> {}, sink |-> <<>>,
           result |-> "running"]

NextIO ==
  \/ ReaderCall
  \/ ReaderPass1
  \/ ReaderGate
  \/ ReaderPass2
  \/ ReaderIoError

SpecIO == InitIO /\ [][NextIO]_vars

---------------------------------------------------------------------------
(* What the claims speak of, stated on the input alone *)

\* Every document decodes and every value is an object (so flattens).
ObjectsOnly ==
  /\ WellFormed
  /\ \A i \in 1..Len(input) : objects[i].kind = "Object"

\* The flattened (key, value) pairs of object i with the reserved separators,
\* and with the caller's own flattener.
SafePairs(i) == FlattenPairs(self.flattener, objects[i], <<>>, 0)
CallerPairs(i) == FlattenPairs(self.original_flattener, objects[i], <<>>, 0)

KeysOf(pairs) == {p[1] : p \in pairs}
SafeKeys == UNION {KeysOf(SafePairs(i)) : i \in 1..Len(input)}
CallerKeys == UNION {KeysOf(CallerPairs(i)) : i \in 1..Len(input)}

\* Two distinct safe keys of the given set coincide in caller-facing form.
CollisionAmong(keys) ==
  \E k1 \in keys, k2 \in keys :
     k1 # k2 /\ transform_key(self, k1) = transform_key(self, k2)

Collision == CollisionAmong(SafeKeys)

\* The text of a flattened value in a CSV field.
Text(v) ==
  CASE v.kind = "String" -> v.str
    [] v.kind = "Number" -> DecimalText(v.num)
    [] v.kind = "Bool"   -> BoolText(v.bool)
    [] OTHER             -> <<>>

\* The field of a set of flattened pairs under caller-facing key h.
FieldOf(pairs, h) ==
  LET found == {p \in pairs : p[1] = h}
  IN  IF found = {} THEN <<>> ELSE Text((CHOOSE p \in found : TRUE)[2])

\* A call (rd or ar) has returned; has returned success with output.
Returned(c) == c.pc = "returned"
Wrote(c) == Returned(c) /\ c.result = "Ok" /\ c.sink # <<>>

\* Row i of a call's sink lines up with its header row under the given pairs:
\* every pair's value stands under the pair's key and every other field is empty.
RowShows(c, i, pairs) ==
  /\ i + 1 <= Len(c.sink)
  /\ Len(c.sink[i + 1]) = Len(c.sink[1])
  /\ \A p \in pairs :
       \E j \in 1..Len(c.sink[1]) :
          c.sink[1][j] = p[1] /\ c.sink[i + 1][j] = Text(p[2])
  /\ \A j \in 1..Len(c.sink[1]) :
       c.sink[1][j] \notin KeysOf(pairs) => c.sink[i + 1][j] = <<>>

---------------------------------------------------------------------------
(* Claims *)

\* C1: for an input of objects in which no two distinct flattened keys coincide
\* in caller-facing form, convert_from_reader and convert_from_array both
\* succeed and have written the same sequence of records.
C1_SameRecords ==
  (Returned(ar) /\ ObjectsOnly /\ ~Collision) =>
     /\ rd.result = "Ok"
     /\ ar.result = "Ok"
     /\ rd.sink = ar.sink

\* Both calls wrote a header and two rows for an input with a nested key.
C1_Witness ==
  /\ Returned(ar) /\ ObjectsOnly /\ ~Collision
  /\ Len(rd.sink) = 3 /\ Len(ar.sink) = 3
  /\ SafeKeys # CallerKeys

\* The header row of a call that wrote output.
C2For(c) ==
  Wrote(c) =>
     /\ {c.sink[1][j] : j \in 1..Len(c.sink[1])} = CallerKeys
     /\ \A j \in 1..(Len(c.sink[1]) - 1) : LexLess(c.sink[1][j], c.sink[1][j + 1])

\* C2: when a conversion succeeds with output, the header row holds exactly the
\* caller-facing flattened keys of the input objects, each once, ascending.
C2_HeaderRow == C2For(rd) /\ C2For(ar)

\* Both calls wrote output for an input with an object whose keys are written
\* in descending order, and with two objects contributing different keys.
C2_Witness ==
  /\ Wrote(rd) /\ Wrote(ar)
  /\ Len(input) = 2
  /\ KeysOf(CallerPairs(1)) # KeysOf(CallerPairs(2))
  /\ \E i \in 1..2 :
       /\ Len(input[i].members) = 2
       /\ LexLess(input[i].members[2][1], input[i].members[1][1])

\* The collision error of a call, against the keys of the input.
C3For(c) ==
  (Returned(c) /\ ObjectsOnly /\ SafeKeys # {}) =>
     /\ (c.result = "FlattenedKeysCollision") <=> Collision
     /\ c.result = "FlattenedKeysCollision" => c.sink = <<>>

\* C3: when every value flattens and a key is retained, a call returns
\* FlattenedKeysCollision exactly when two distinct safe keys map to the same
\* caller-facing key, and then nothing has been written.
C3_CollisionReported == C3For(rd) /\ C3For(ar)

\* Both calls returned the collision error for two objects that collide with
\* each other and not within themselves.
C3_Witness ==
  /\ Returned(rd) /\ Returned(ar)
  /\ rd.result = "FlattenedKeysCollision" /\ ar.result = "FlattenedKeysCollision"
  /\ Len(input) = 2
  /\ \A i \in 1..2 : ~CollisionAmong(KeysOf(SafePairs(i)))

\* The outcome of a call on an input that retains no key.
C4For(c) ==
  (Returned(c) /\ ObjectsOnly /\ SafeKeys = {}) =>
     c.result = "Ok" /\ c.sink = <<>>

\* C4: when the input is empty or no object retains a key, a call returns Ok
\* and has written nothing.
C4_EmptyIsOk == C4For(rd) /\ C4For(ar)

\* Both calls returned for two objects, one with members, that retain no key.
C4_Witness ==
  /\ Returned(rd) /\ Returned(ar)
  /\ ObjectsOnly /\ SafeKeys = {}
  /\ Len(input) = 2
  /\ \E i \in 1..2 : input[i].members # <<>>

\* The records of a call that wrote output.
C5For(c) ==
  Wrote(c) =>
     /\ Len(c.sink) = 1 + Len(input)
     /\ \A i \in 1..Len(input) :
          c.sink[i + 1] =
            [j \in 1..Len(c.sink[1]) |-> FieldOf(CallerPairs(i), c.sink[1][j])]

\* C5: when a conversion succeeds with output, the sink holds the header row
\* and then one row per input object, the i-th rendered from the i-th object.
C5_OneRowPerObject == C5For(rd) /\ C5For(ar)

\* Both calls wrote a row of empty fields for an object that retains no key.
C5_Witness ==
  /\ Wrote(rd) /\ Wrote(ar)
  /\ Len(input) = 2
  /\ \E i \in 1..2 :
       /\ SafePairs(i) = {}
       /\ \A j \in 1..Len(rd.sink[i + 1]) : rd.sink[i + 1][j] = <<>>
       /\ \A j \in 1..Len(ar.sink[i + 1]) : ar.sink[i + 1][j] = <<>>

\* The widths of the rows in a call's sink.
C6For(c) == \A r \in 2..Len(c.sink) : Len(c.sink[r]) = Len(c.sink[1])

\* C6: every data row in a sink has as many fields as the header row.
C6_RowWidth == C6For(rd) /\ C6For(ar)

\* Both calls wrote the row of an object that lacks one of the headers.
C6_Witness ==
  /\ Wrote(rd) /\ Wrote(ar)
  /\ \E i \in 1..Len(input) :
       /\ KeysOf(CallerPairs(i)) # {}
       /\ KeysOf(CallerPairs(i)) # CallerKeys

\* The fields of a call that wrote output, by the kind of value.
C7For(c) ==
  Wrote(c) =>
     \A i \in 1..Len(input) : \A j \in 1..Len(c.sink[1]) :
        /\ i + 1 <= Len(c.sink)
        /\ j <= Len(c.sink[i + 1])
        /\ LET found == {p \in CallerPairs(i) : p[1] = c.sink[1][j]}
               field == c.sink[i + 1][j]
           IN  /\ found = {} => field = <<>>
               /\ \A p \in found :
                    /\ p[2].kind = "String" => field = p[2].str
                    /\ p[2].kind = "Number" => field = DecimalText(p[2].num)
                    /\ p[2].kind = "Bool" => field = BoolText(p[2].bool)
                    /\ p[2].kind \in {"Null", "Array", "Object"} => field = <<>>

\* C7: a field is the string's characters for a string, the canonical text for
\* a number or boolean, and empty for null, a preserved empty array or object,
\* and a key the object does not have.
C7_FieldByKind == C7For(rd) /\ C7For(ar)

\* Both calls wrote output where one object holds null under a key that the
\* other object does not have.
C7_Witness ==
  /\ Wrote(rd) /\ Wrote(ar)
  /\ Len(input) = 2
  /\ \E i \in 1..2 : \E p \in CallerPairs(i) :
       /\ p[2].kind = "Null"
       /\ p[1] \notin KeysOf(CallerPairs(3 - i))

\* The columns of a call that wrote output.
C8For(c) ==
  Wrote(c) => \A i \in 1..Len(input) : RowShows(c, i, CallerPairs(i))

\* C8: in every data row each value stands in the column of its own
\* caller-facing key, and the columns of keys the object lacks are empty,
\* under every flattener configuration.
C8_ValueUnderOwnHeader == C8For(rd) /\ C8For(ar)

\* Both calls wrote output for keys whose safe forms sort the other way round
\* than their caller-facing forms.
C8_Witness ==
  /\ Wrote(rd) /\ Wrote(ar)
  /\ \E k1 \in SafeKeys, k2 \in SafeKeys :
       /\ LexLess(k1, k2)
       /\ LexLess(transform_key(self, k2), transform_key(self, k1))

\* A top-level object's text repeats a key.
HasRepeatedKey(doc) ==
  /\ doc.kind = "Object"
  /\ \E m \in 1..Len(doc.members), n \in 1..Len(doc.members) :
       m < n /\ doc.members[m][1] = doc.members[n][1]

\* The members of an object's text without those whose key occurs again later.
RECURSIVE KeepLast(_)
KeepLast(members) ==
  IF members = <<>> THEN <<>>
  ELSE IF \E n \in 2..Len(members) : members[n][1] = members[1][1]
       THEN KeepLast(Tail(members))
       ELSE <<members[1]>> \o KeepLast(Tail(members))

\* Object i with only the last occurrence of each key, and its flattened pairs.
Kept(i) == ParseValue(Object(KeepLast(input[i].members)))
KeptPairs(i) == FlattenPairs(self.original_flattener, Kept(i), <<>>, 0)
KeptSafeKeys ==
  UNION {KeysOf(FlattenPairs(self.flattener, Kept(i), <<>>, 0)) :
           i \in 1..Len(input)}

\* C9: when an object's text repeats a key, both calls end alike, and the
\* result is that of the input with only the last occurrence of each key: its
\* keys alone make the headers, the rows and any collision.
C9_LastOccurrenceWins ==
  (Returned(ar) /\ ObjectsOnly /\ \E i \in 1..Len(input) : HasRepeatedKey(input[i])) =>
     /\ rd.result = ar.result
     /\ rd.sink = ar.sink
     /\ (ar.result = "FlattenedKeysCollision") <=> CollisionAmong(KeptSafeKeys)
     /\ Wrote(ar) =>
          /\ {ar.sink[1][j] : j \in 1..Len(ar.sink[1])} =
               UNION {KeysOf(KeptPairs(i)) : i \in 1..Len(input)}
          /\ \A i \in 1..Len(input) : RowShows(ar, i, KeptPairs(i))

\* Both calls wrote output for an input with a repeated key whose earlier
\* occurrence flattens to a key that is no header.
C9_Witness ==
  /\ Wrote(rd) /\ Wrote(ar)
  /\ \E i \in 1..Len(input) :
       /\ HasRepeatedKey(input[i])
       /\ \E p \in FlattenPairs(self.original_flattener,
                               ParseValue(Object(<<input[i].members[1]>>)), <<>>, 0) :
            \A j \in 1..Len(ar.sink[1]) : ar.sink[1][j] # p[1]

\* C10: convert_from_reader's sink holds a record only once every document has
\* been decoded, flattened and spilled and neither early return was taken; a
\* call that fails on malformed JSON, a non-object or a collision wrote nothing.
C10_NothingBeforeGate ==
  /\ rd.sink # <<>> =>
       /\ rd.pc \in {"pass2", "returned"}
       /\ ObjectsOnly
       /\ Len(rd.tmp_file) = Len(input)
       /\ SafeKeys # {}
       /\ ~Collision
  /\ rd.result \in {"ParsingJson", "Flattening", "FlattenedKeysCollision"} =>
       rd.sink = <<>>

\* The reader call failed on the last document, after an object with keys had
\* been spilled, and wrote nothing.
C10_Witness ==
  /\ Returned(rd)
  /\ rd.result = "ParsingJson"
  /\ Len(input) = 2
  /\ rd.tmp_file # <<>>
  /\ rd.headers # {}
  /\ rd.sink = <<>>

---------------------------------------------------------------------------
(* The spill file *)

\* The keys of a spilled document.
SpilledKeys(doc) == {doc.members[n][1] : n \in 1..Len(doc.members)}

\* During the first loop the spill file holds one document per decoded object.
OnePerObject ==
  /\ Len(rd.tmp_file) <= Len(input)
  /\ rd.pc = "pass1" => Len(rd.tmp_file) = rd.pos

\* C11 as stated: the spill file holds one document per object read so far, in
\* input order, each under the safe keys of its flattened object.
C11_SpilledUnderSafeKeys ==
  /\ OnePerObject
  /\ \A i \in 1..Len(rd.tmp_file) :
       SpilledKeys(rd.tmp_file[i]) = KeysOf(SafePairs(i))

\* C11, amended: the spill file holds one document per object read so far, in
\* input order, each under the caller-facing keys that transform_key gives the
\* keys of its flattened object, with the values the object holds under them.
C11_SpilledUnderCallerKeys ==
  /\ OnePerObject
  /\ \A i \in 1..Len(rd.tmp_file) :
       /\ SpilledKeys(rd.tmp_file[i]) = KeysOf(CallerPairs(i))
       /\ \A n \in 1..Len(rd.tmp_file[i].members) :
            rd.tmp_file[i].members[n] \in CallerPairs(i)

\* Two objects have been spilled during the first loop, the second of them
\* with a key whose safe and caller-facing forms differ.
C11_Witness ==
  /\ rd.pc = "pass1"
  /\ Len(rd.tmp_file) = 2
  /\ KeysOf(SafePairs(2)) # KeysOf(CallerPairs(2))
  /\ SpilledKeys(rd.tmp_file[2]) = KeysOf(CallerPairs(2))

\* C12: a call of convert_from_reader starts without a spill file, holds a new
\* one (empty until the first object is spilled) while it runs, and holds none
\* once it has returned, whatever the result.
C12_SpillFileReleased ==
  /\ rd.pc = "call" => ~rd.tmp_held
  /\ rd.pc \in {"pass1", "pass2"} => rd.tmp_held
  /\ (rd.pc = "pass1" /\ rd.pos = 0) => rd.tmp_file = <<>>
  /\ Returned(rd) => ~rd.tmp_held

\* The call returned a CSV write error from the second loop, after the header
\* row and a data row had been written, and holds no spill file.
C12_Witness ==
  /\ Returned(rd)
  /\ rd.result = "WrittingCSV"
  /\ Len(rd.sink) >= 2
  /\ Len(rd.tmp_file) = 2
  /\ ~rd.tmp_held

(* Rejected values *)

\* The positions of the input values that the flattener rejects.
Rejected == {i \in 1..Len(input) : ~Flatten(self.flattener, objects[i]).ok}
FirstRejected == CHOOSE i \in Rejected : \A j \in Rejected : i <= j

\* C13: when the flattener rejects some input value, convert_from_array never
\* gets to collect a header or to write to the sink, and it returns the
\* Flattening error on reaching the first rejected value, whatever the other
\* values hold.
C13_FlatteningFirst ==
  (WellFormed /\ Rejected # {}) =>
     /\ ar.pc \in {"idle", "flatten", "returned"}
     /\ ar.sink = <<>>
     /\ ar.orig_headers = {} /\ ar.headers = {}
     /\ Returned(ar) => /\ ar.result = "Flattening"
                        /\ ar.pos = FirstRejected - 1

\* convert_from_array returned the Flattening error of the second value when
\* the keys of the first one collide in caller-facing form.
C13_Witness ==
  /\ WellFormed
  /\ Len(input) = 2
  /\ Rejected = {2}
  /\ CollisionAmong(KeysOf(SafePairs(1)))
  /\ Returned(ar)
  /\ ar.result = "Flattening"
  /\ Len(ar.orig_flat_maps) = 1

(* Header accumulation *)

\* The safe keys of the first n input values.
PrefixKeys(n) == UNION {KeysOf(SafePairs(i)) : i \in 1..n}

\* The header sets of a call: headers is the image of orig_headers under
\* transform_key, hence no larger and empty together with it, and a call whose
\* sets differ in size has written nothing and has not returned success.
HeadersAreImage(c) ==
  /\ c.headers = {transform_key(self, k) : k \in c.orig_headers}
  /\ Cardinality(c.headers) <= Cardinality(c.orig_headers)
  /\ (c.headers = {}) <=> (c.orig_headers = {})
  /\ Cardinality(c.headers) # Cardinality(c.orig_headers) =>
       c.sink = <<>> /\ c.result # "Ok"

\* While a converter collects headers, orig_headers holds the safe keys of the
\* values processed so far.
HeadersOfPrefix ==
  /\ rd.pc = "pass1" => rd.orig_headers = PrefixKeys(rd.pos)
  /\ ar.pc = "headers" => ar.orig_headers = PrefixKeys(ar.pos)

\* A step of a call only adds to its header sets, and sets that differ in size
\* still differ after it.
HeadersGrow(c, d) ==
  /\ c.orig_headers \subseteq d.orig_headers
  /\ c.headers \subseteq d.headers
  /\ Cardinality(c.headers) # Cardinality(c.orig_headers) =>
       Cardinality(d.headers) # Cardinality(d.orig_headers)

\* C14: in both converters, after any prefix of the input the caller-facing
\* header set is the image under transform_key of the safe header set, which
\* holds the safe keys of that prefix; both sets only grow; and once their
\* sizes differ they differ from then on and the call cannot end in success
\* with output.
C14_HeaderAccumulation ==
  /\ [](HeadersAreImage(rd) /\ HeadersAreImage(ar) /\ HeadersOfPrefix)
  /\ [][HeadersGrow(rd, rd') /\ HeadersGrow(ar, ar')]_vars

\* convert_from_reader returned the collision error for two objects, the keys
\* of the first of which already collide and the second of which added keys.
C14_Witness ==
  /\ ObjectsOnly
  /\ Len(input) = 2
  /\ CollisionAmong(PrefixKeys(1))
  /\ PrefixKeys(2) # PrefixKeys(1)
  /\ Returned(rd)
  /\ rd.result = "FlattenedKeysCollision"
  /\ rd.orig_headers = PrefixKeys(2)
  /\ Cardinality(rd.headers) < Cardinality(rd.orig_headers)

==========================================================================
